---- MODULE Spec2Model ----
(***************************************************************************)
(* Model of release_deb.py: the command line release orchestrator of the   *)
(* Checkbox Debian packages.  One invocation of the script runs one step   *)
(* (cleanup, clone, changelog, or a per-project step) and shells out to    *)
(* git, bumpversion, git-dpm and the Launchpad helper scripts.  The model  *)
(* keeps the files the script reads and writes, the trace of the external  *)
(* commands of the current invocation with their return codes, and the way *)
(* the invocation ended.                                                    *)
(*                                                                         *)
(* Strings the script inspects (versions, tags, tool output) are sequences *)
(* of characters; a fixed keyword of a tool's output is one symbol.        *)
(***************************************************************************)
EXTENDS Integers, Sequences, FiniteSets, TLC

\* ------------------------------------------------------------------ bounds
MaxMinor == 1      \* minor numbers 0..MaxMinor appear in versions
MaxN == 2          \* release-candidate / dev counters 0..MaxN
MaxBehind == 2     \* release branch is 0..MaxBehind commits behind master
MaxRc == 10        \* release candidates rc0..rc<MaxRc> appear in tags

\* ------------------------------------------------------------ strings
DigitChars == <<"0", "1", "2", "3", "4", "5", "6", "7", "8", "9">>

IsDigit(c) == \E i \in 1..Len(DigitChars) : DigitChars[i] = c

\* str(n) for a small natural number
NatStr(n) ==
    IF n < 10 THEN <<DigitChars[n + 1]>>
    ELSE <<DigitChars[(n \div 10) + 1], DigitChars[(n % 10) + 1]>>

\* int(s): the number a decimal string denotes, -1 when it is not a number
\* (Python raises ValueError there)
ParseInt(s) ==
    IF \E n \in 0..99 : NatStr(n) = s
    THEN CHOOSE n \in 0..99 : NatStr(n) = s
    ELSE -1

\* sub in s
Contains(s, sub) ==
    \E i \in 1..(Len(s) - Len(sub) + 1) : SubSeq(s, i, i + Len(sub) - 1) = sub

StartsWith(s, pre) == Len(s) >= Len(pre) /\ SubSeq(s, 1, Len(pre)) = pre

EndsWith(s, suf) ==
    Len(s) >= Len(suf) /\ SubSeq(s, Len(s) - Len(suf) + 1, Len(s)) = suf

\* s.replace(old, new), leftmost non-overlapping occurrences, old non-empty
RECURSIVE Replace(_, _, _)
Replace(s, old, new) ==
    IF Len(s) < Len(old) THEN s
    ELSE IF SubSeq(s, 1, Len(old)) = old
         THEN new \o Replace(SubSeq(s, Len(old) + 1, Len(s)), old, new)
         ELSE <<Head(s)>> \o Replace(Tail(s), old, new)

\* the text of a string, as it is handed to a command line
RECURSIVE Join(_)
Join(s) == IF s = <<>> THEN "" ELSE Head(s) \o Join(Tail(s))

Last(s) == s[Len(s)]

\* ------------------------------------------------- versions, bumpversion
\* The version scheme of the projects' .bumpversion.cfg, as the comments of
\* bump_version describe it: 1.<minor>.dev<N> -> 1.<minor>rc<N> -> 1.<minor>
Releases == {"dev", "rc", "final"}

VersionParts ==
    { v \in [minor : 0..MaxMinor, release : Releases, N : 0..MaxN] :
        v.release = "final" => v.N = 0 }

Serialize(v) ==
    <<"1", ".">> \o NatStr(v.minor) \o
    ( CASE v.release = "dev" -> <<".", "d", "e", "v">> \o NatStr(v.N)
        [] v.release = "rc" -> <<"r", "c">> \o NatStr(v.N)
        [] OTHER -> <<>> )

VersionStrings == { Serialize(v) : v \in VersionParts }

Parses(s) == \E v \in VersionParts : Serialize(v) = s

Parse(s) == CHOOSE v \in VersionParts : Serialize(v) = s

\* the part bumped and every part after it reset, as bumpversion does;
\* FALSE where the tool cannot bump (last value of the release part)
CanBump(part, v) ==
    CASE part = "minor" -> TRUE
      [] part = "release" -> v.release # "final"
      [] part = "N" -> v.release # "final"
      [] OTHER -> FALSE

Bumped(part, v) ==
    CASE part = "minor" -> [minor |-> v.minor + 1, release |-> "dev", N |-> 0]
      [] part = "release" ->
            [minor |-> v.minor,
             release |-> IF v.release = "dev" THEN "rc" ELSE "final",
             N |-> 0]
      [] OTHER -> [minor |-> v.minor, release |-> v.release, N |-> v.N + 1]

InBounds(v) == v.minor <= MaxMinor /\ v.N <= MaxN

\* stdout of `bumpversion <part> --allow-dirty --list`
BumpversionOutput(old, new) ==
    << <<"current_version=">> \o old,
       <<"commit=">> \o <<"F", "a", "l", "s", "e">>,
       <<"new_version=">> \o new >>

\* bumpversion_output.splitlines()[-1].replace('new_version=', '')
ParseNewVersion(output) == Replace(Last(output), <<"new_version=">>, <<>>)

\* ------------------------------------------------------- configuration
\* keys of the release config that name projects, in the file's order
Projects == <<"checkbox-ng", "plainbox-provider-resource">>

ProjectSet == { Projects[i] : i \in 1..Len(Projects) }

\* 'box' in key, for the keys of the release config
HasBox(key) == key \in {"checkbox-ng", "plainbox-provider-resource"}

ConfigKeys == <<"checkbox-ng", "dry_run", "mode", "plainbox-provider-resource">>

Modes == {"testing", "stable"}

\* [key for key in config.keys() if 'box' in key]
BoxKeys == SelectSeq(ConfigKeys, HasBox)

ProjectSteps ==
    {"bump", "sdist", "dpm", "open", "push", "merge", "build", "milestone"}

ORIGIN == "git@github.com:yphus/monorepo-sandbox.git"
CWD == "src"
User == "jdoe"                 \* --user
TargetUser == "checkbox-dev"   \* --target-user, its default

base_url == "git+ssh://" \o User \o "@git.launchpad.net"
clone_dir(p) == CWD \o "/" \o p
packaging(p) == "packaging_" \o p
packaging_clone_dir(p) == CWD \o "/" \o packaging(p)
MonoRoot == CWD \o "/monorepo-sandbox"

\* ------------------------------------------------------------------ state
VARIABLES
    config,       \* the release config file: [flags, mode, dry_run]
    srcdir,       \* BOOLEAN: the working directory src/ exists
    mono,         \* BOOLEAN: src/monorepo-sandbox exists
    cloned,       \* [project -> subset of {"code", "packaging"}]: its clones in src/
    cfgver,       \* [project -> string]: current_version of .bumpversion.cfg, <<>> if none
    entryp,       \* [project -> "manage.py" | "setup.py" | "none"]
    tags,         \* [project -> sequence of tags of the code repository, oldest first]
    monotags,     \* tags of the monorepo, oldest first
    dist,         \* [project -> set of versions with a tarball in dist/]
    orig,         \* names of the orig tarballs copied into src/
    versions,     \* versions.json: [exists, data], data a function on some projects
    changelog,    \* the changelog file, the entries appended to it
    behind,       \* [project -> commits the release branch is behind master]
    changes,      \* [project -> files changed in the code repository since the tag]
    pkgchanges,   \* [project -> files changed in the packaging repository since the tag]
    args,         \* the command line of the current (or last) invocation
    pc,           \* "idle" before an invocation, "loop" inside main()'s project
                  \* loop, "done" when the process has ended
    pending,      \* projects main's loop has still to run
    cmds,         \* external commands issued by the invocation, with return codes
    log,          \* messages logged by the invocation (release.log)
    writes,       \* <<project, file>>: files the invocation wrote itself
    status,       \* how the invocation ended: "ok" or the exception that ended it
    lastrun,      \* the last Release.run(): [project, step, flag, first, status]
    self,         \* attributes of the last Release object
    result,       \* value of the last is_release_required, "none" before
    before        \* the files as they were when the invocation started

disk == <<config, srcdir, mono, cloned, cfgver, entryp, tags, monotags, dist,
          orig, versions, changelog, behind, changes, pkgchanges>>
proc == <<args, pc, pending, cmds, log, writes, status, lastrun, self, result,
          before>>
vars == <<disk, proc>>

\* ---------------------------------------------------------- git describe
\* one pattern item against one character: a bracket class or a literal
MatchOne(item, c) ==
    CASE item = "[^c]" -> c # "c"
      [] item = "[0-9]" -> IsDigit(c)
      [] OTHER -> item = c

\* glob match of the whole string, as git describe --match does
RECURSIVE Glob(_, _)
Glob(pat, s) ==
    IF pat = <<>> THEN s = <<>>
    ELSE IF Head(pat) = "*"
         THEN \E k \in 0..Len(s) : Glob(Tail(pat), SubSeq(s, k + 1, Len(s)))
         ELSE /\ s # <<>>
              /\ MatchOne(Head(pat), Head(s))
              /\ Glob(Tail(pat), Tail(s))

\* version_pattern = '*', or '*[^c][0-9]' in stable mode
version_pattern(mode) ==
    IF mode = "stable" THEN <<"*", "[^c]", "[0-9]">> ELSE <<"*">>

StablePattern == <<"*", "[^c]", "[0-9]">>

Matching(tagseq, pat) == { i \in 1..Len(tagseq) : Glob(pat, tagseq[i]) }

\* git describe --abbrev=0 --tags --match <pat>: the latest matching tag,
\* <<>> (and a non-zero return code) when no tag matches
Describe(tagseq, pat) ==
    LET m == Matching(tagseq, pat)
    IN  IF m = {} THEN <<>>
        ELSE tagseq[CHOOSE i \in m : \A j \in m : j <= i]

\* --------------------------------------------------- running one command
\* The world of one Release.run(): the files it may change, the trace, and
\* how far it got.  fresh: the run is the first of its invocation, whose
\* trace starts empty.  fail is the set of indices, among the commands of this
\* run, of the commands that return non-zero.
World(p, step, fail, fresh) ==
    [ project |-> p, step |-> step, status |-> "run", n |-> 0, fail |-> fail,
      cmds |-> IF fresh THEN <<>> ELSE cmds,
      log |-> IF fresh THEN <<>> ELSE log,
      writes |-> IF fresh THEN {} ELSE writes,
      config |-> config, mono |-> mono, cloned |-> cloned, cfgver |-> cfgver,
      dist |-> dist, orig |-> orig,
      versions |-> versions, changelog |-> changelog,
      behind |-> behind, changes |-> changes,
      stdout |-> <<>>, result |-> "none",
      current_version |-> <<>>, new_version |-> <<>>,
      debian_new_version |-> <<>>, orig_tarball |-> "" ]

Running(w) == w.status = "run"

\* the last command was issued and returned zero
Ok(w) == Running(w) /\ w.cmds # <<>> /\ Last(w.cmds).rc = 0

Raise(w, exception) == IF Running(w) THEN [w EXCEPT !.status = exception] ELSE w

Logged(w, line) == IF Running(w) THEN [w EXCEPT !.log = Append(@, line)] ELSE w

\* logger.info of a step banner: a rule, the message, a rule
Banner(w, line) == Logged(Logged(Logged(w, "####"), line), "####")

\* run(): subprocess.run with the output captured.  A missing cwd raises
\* FileNotFoundError before anything is executed; with check=True a
\* non-zero return code is logged and turned into SystemExit(1).
run(w, argv, cwd, cwdExists, toolOk, check) ==
    IF ~Running(w) THEN w
    ELSE IF ~cwdExists THEN Raise(w, "FileNotFoundError")
    ELSE LET n == w.n + 1
             rc == IF toolOk /\ n \notin w.fail THEN 0 ELSE 1
             w1 == [w EXCEPT !.n = n,
                             !.cmds = Append(@, [proj |-> w.project, argv |-> argv,
                                                 cwd |-> cwd, rc |-> rc])]
         IN  IF rc # 0 /\ check
             THEN Raise(Logged(w1, "ERROR CalledProcessError"), "SystemExit")
             ELSE w1

\* run() of a command of the code repository of the project
RunCode(w, argv, toolOk, check) ==
    run(w, argv, clone_dir(w.project),
        Running(w) /\ "code" \in w.cloned[w.project], toolOk, check)

\* a command of the packaging repository whose return code is never looked at
RunPackaging_unchecked(w, argv, toolOk, check) ==
    run(w, argv, packaging_clone_dir(w.project),
        Running(w) /\ "packaging" \in w.cloned[w.project], toolOk, FALSE)

\* run() of a command of the packaging repository of the project
RunPackaging(w, argv, toolOk, check) ==
    run(w, argv, packaging_clone_dir(w.project),
        Running(w) /\ "packaging" \in w.cloned[w.project], toolOk, check)

\* a shell command whose return code is never looked at
RunShell_unchecked(w, line, check) == run(w, <<line>>, ".", TRUE, TRUE, FALSE)

\* run(..., shell=True) in the directory the script was started in
RunShell(w, line, check) == run(w, <<line>>, ".", TRUE, TRUE, check)

\* ------------------------------------------------------------------ bump
\* _get_version(): current_version of .bumpversion.cfg, SystemExit(1)
\* when the file or the section is missing
_get_version(w) ==
    IF w.cfgver[w.project] = <<>>
    THEN Raise(Logged(w, "ERROR .bumpversion.cfg not found"), "SystemExit")
    ELSE [w EXCEPT !.stdout = w.cfgver[w.project]]

\* run(['bumpversion', part, '--allow-dirty', '--list'], check=True): the
\* tool rewrites current_version and lists the old and the new version
bumpversion(w, part) ==
    LET old == IF Running(w) THEN w.cfgver[w.project] ELSE <<>>
        can == Parses(old) /\ CanBump(part, Parse(old))
        new == IF can THEN Serialize(Bumped(part, Parse(old))) ELSE old
        w1 == RunCode(w, <<"bumpversion", part, "--allow-dirty", "--list">>,
                      can, TRUE)
    IN  IF Running(w) /\ Ok(w1)
        THEN [w1 EXCEPT !.cfgver[w.project] = new,
                        !.stdout = BumpversionOutput(old, new)]
        ELSE w1

\* bump_version with a single bumpversion call whatever the version
BumpParts_once(mode, current) ==
    IF mode = "stable" THEN <<"release">> ELSE <<"N">>

\* the parts bump_version hands to bumpversion, one call each, in order
BumpParts(mode, current) ==
    IF mode = "stable"
    THEN IF Contains(current, <<"d", "e", "v">>) THEN <<"release", "release">>
         ELSE IF Contains(current, <<"r", "c">>) THEN <<"release">>
         ELSE <<"minor", "release", "release">>
    ELSE IF Contains(current, <<"d", "e", "v">>) THEN <<"release", "N">>
         ELSE IF Contains(current, <<"r", "c">>) THEN <<"N">>
         ELSE <<"minor", "release", "N">>

RECURSIVE BumpAll(_, _)
BumpAll(w, parts) ==
    IF parts = <<>> THEN w ELSE BumpAll(bumpversion(w, Head(parts)), Tail(parts))

\* a record that forgets the version the bump started from
VersionRecord_flat(last_tag, current, new) ==
    [last_stable |-> Tail(last_tag), current |-> new, new |-> new]

\* the record _save_versions stores for the project
VersionRecord(last_tag, current, new) ==
    [last_stable |-> Tail(last_tag), current |-> current, new |-> new]

\* a mapping that holds the record of the project and nothing else
SetRecord_alone(data, p, rec) == [q \in {p} |-> rec]

\* data[self.project] = {...}: the record of the project is set, every
\* other key of the mapping keeps its value
SetRecord(data, p, rec) ==
    [q \in DOMAIN data \cup {p} |-> IF q = p THEN rec ELSE data[q]]

\* _save_versions(): versions.json (an empty mapping when the file is
\* missing) with the record of the project replaced, written back
_save_versions(w) ==
    LET data == IF w.versions.exists THEN w.versions.data ELSE << >>
        last_stable_version == Describe(tags[w.project], <<"v">> \o StablePattern)
        w1 == RunCode(w, <<"git", "describe", "--abbrev=0", "--tags", "--match",
                           Join(<<"v">> \o StablePattern)>>,
                      last_stable_version # <<>>, TRUE)
        rec == VersionRecord(last_stable_version, w.current_version, w.new_version)
    IN  IF Running(w) /\ Ok(w1)
        THEN [w1 EXCEPT
                !.versions = [exists |-> TRUE,
                              data |-> SetRecord(data, w.project, rec)],
                !.writes = @ \cup {<<w.project, "versions.json">>}]
        ELSE w1

\* the tag command of bump_version: its message formats the name `project`,
\* which is bound neither in the method nor in the module, so evaluating
\* the arguments raises NameError and git tag is never run
TagVersion(w) == Raise(w, "NameError")

\* bump_version(): bump, commit, save the record, tag
bump_version(w) ==
    LET w0 == _get_version(w)
        current == w.cfgver[w.project]
        w1 == IF Running(w0) THEN [w0 EXCEPT !.current_version = current] ELSE w0
        w2 == BumpAll(w1, BumpParts(w.config.mode, current))
        w3 == IF Running(w2)
              THEN [w2 EXCEPT !.new_version = ParseNewVersion(w2.stdout)]
              ELSE w2
        w4 == RunCode(w3, <<"git", "add", "--all">>, TRUE, TRUE)
        w5 == RunCode(w4, <<"git", "commit", "-m",
                            "Bump to v" \o Join(w3.new_version)>>, TRUE, TRUE)
        w6 == _save_versions(w5)
    IN  TagVersion(w6)

\* ----------------------------------------------------------- sdist, dpm
\* create_source_tarball(): ./manage.py sdist, else ./setup.py sdist
create_source_tarball(w) ==
    LET w0 == _get_version(w)
        ver == w.cfgver[w.project]
        w1 == IF Running(w0) THEN [w0 EXCEPT !.new_version = ver] ELSE w0
        w2 == IF entryp[w.project] = "manage.py"
              THEN RunCode(w1, <<"./manage.py", "sdist">>, TRUE, TRUE)
              ELSE IF entryp[w.project] = "setup.py"
                   THEN RunCode(w1, <<"./setup.py", "sdist">>, TRUE, TRUE)
                   ELSE w1
    IN  IF Running(w1) /\ entryp[w.project] # "none" /\ Ok(w2)
        THEN [w2 EXCEPT !.dist[w.project] = @ \cup {ver}]
        ELSE w2

\* a packaging that keeps the name of every project
deb_project_same(p) == p

\* the project name Debian knows the package by
deb_project(p) ==
    IF p = "plainbox-provider-resource"
    THEN "plainbox-provider-resource-generic"
    ELSE p

\* glob('<clone_dir>/dist/*<version>.tar.gz') over the tarballs
\* <project>-<v>.tar.gz of dist/
Archives(tarballs, version) == { v \in tarballs : EndsWith(<<"-">> \o v, version) }

\* _prepare_debian_tarball(): copy the sdist tarball to the orig name
_prepare_debian_tarball(w) ==
    LET w0 == _get_version(w)
        ver == w.cfgver[w.project]
        debian == Replace(ver, <<"r", "c">>, <<"~", "r", "c">>)
        name == deb_project(w.project) \o "_" \o Join(debian) \o ".orig.tar.gz"
        archives == Archives(w.dist[w.project], ver)
    IN  IF ~Running(w0) THEN w0
        ELSE IF archives = {}
        THEN Raise(Logged([w0 EXCEPT !.new_version = ver,
                                     !.debian_new_version = debian,
                                     !.orig_tarball = name],
                          "ERROR sdist tarball not found"), "SystemExit")
        ELSE [w0 EXCEPT !.new_version = ver,
                        !.debian_new_version = debian,
                        !.orig_tarball = name,
                        !.orig = @ \cup {name},
                        !.writes = @ \cup {<<w.project, name>>}]

\* dance(): the git-dpm sequence on the packaging repository
dance(w) ==
    LET tarball == "../" \o w.orig_tarball
        w1 == RunPackaging(w, <<"git-dpm", "import-new-upstream", tarball>>, TRUE, TRUE)
        w2 == RunPackaging(w1, <<"pristine-tar", "commit", tarball>>, TRUE, TRUE)
        w3 == RunPackaging(w2, <<"git-dpm", "prepare">>, TRUE, TRUE)
        w4 == RunPackaging(w3, <<"git-dpm", "rebase-patched">>, TRUE, TRUE)
        w5 == RunPackaging(w4, <<"git-dpm", "dch", "--", "-v",
                                 Join(w.debian_new_version) \o "-1", "-D",
                                 "UNRELEASED", "\"new upstream version\"">>,
                           TRUE, TRUE)
        w6 == RunPackaging(w5, <<"git-dpm", "status">>, TRUE, TRUE)
    IN  RunPackaging(w6, <<"git-dpm", "tag">>, TRUE, TRUE)

\* ------------------------------------------------------------------ open
\* open_for_development(): bump to the next development version, commit
open_for_development(w) ==
    LET w1 == bumpversion(w, "minor")
        new_dev_version == IF Running(w1) THEN ParseNewVersion(w1.stdout) ELSE <<>>
        w2 == RunCode(w1, <<"git", "add", "--all">>, TRUE, TRUE)
        w3 == RunCode(w2, <<"git", "commit", "-m",
                            "increment version to v" \o Join(new_dev_version)>>,
                      TRUE, TRUE)
    IN  Logged(w3, "# Bump to version " \o Join(new_dev_version))

\* ----------------------------------------------------------- push, merge
code_url(p) == base_url \o "/~" \o TargetUser \o "/" \o p
packaging_url(p) == code_url(p) \o "/+git/packaging"

\* git push that never adds --dry-run
GitPush_plain(dry, rest) == <<"git", "push">> \o rest

\* git push, with --dry-run in front of the remote when dry is set
GitPush(dry, rest) ==
    IF dry THEN <<"git", "push", "--dry-run">> \o rest ELSE <<"git", "push">> \o rest

\* push(): the release branch and the tags of the code repository, all
\* branches and the tags of the packaging repository
push(w) ==
    LET dry == w.config.dry_run
        p == w.project
        w1 == RunCode(w, GitPush(dry, <<code_url(p), "release", "--tags">>), TRUE, TRUE)
        w2 == RunPackaging(w1, GitPush(dry, <<packaging_url(p), "--all">>), TRUE, TRUE)
    IN  RunPackaging(w2, GitPush(dry, <<packaging_url(p), "--tags">>), TRUE, TRUE)

ProposeMergeLine(p) ==
    "./support/release/git/lp-propose-merge ~" \o TargetUser \o "/" \o p
    \o " -s --merged-timeout 3600 --credentials $LP_CREDS"

\* merge(): propose the merge and wait for it, then delete the release
\* branch; a dry run only deletes (dry-run) the branch, unchecked
merge(w) ==
    LET p == w.project
        delete == <<code_url(p), "--delete", "release">>
    IN  IF w.config.dry_run
        THEN RunCode(w, GitPush(TRUE, delete), TRUE, FALSE)
        ELSE LET w1 == RunShell(w, ProposeMergeLine(p), TRUE)
             IN  RunCode(Logged(w1, "lp-propose-merge output"),
                         GitPush(FALSE, delete), TRUE, TRUE)

\* ------------------------------------------------------ build, milestone
\* a trigger that always names the testing recipe
RecipeLine_testing(p, mode, new_version) ==
    "./support/release/git/lp-recipe-update-build " \o p \o " --recipe " \o p
    \o "-testing -n " \o Join(new_version) \o " --credentials $LP_CREDS"

\* the command line of the recipe-build trigger
RecipeLine(p, mode, new_version) ==
    "./support/release/git/lp-recipe-update-build " \o p \o " --recipe " \o p
    \o (IF mode = "testing" THEN "-testing" ELSE "-stable")
    \o " -n " \o Join(new_version) \o " --credentials $LP_CREDS"

MilestoneLine(p, new_version) ==
    "./support/release/git/lp-release-milestone " \o p \o " -m "
    \o Join(new_version) \o " --credentials $LP_CREDS"

\* json.load(open('versions.json')): FileNotFoundError when there is no file
LoadVersions(w) == IF w.versions.exists THEN w ELSE Raise(w, "FileNotFoundError")

\* build(): trigger the recipe build of the new version
build(w) ==
    LET p == w.project
        w0 == LoadVersions(w)
    IN  IF ~Running(w0) THEN w0
        ELSE IF p \notin DOMAIN w.versions.data
        THEN Logged(w0, "WARNING # Skipping build step")
        ELSE IF w.config.dry_run
        THEN Logged(w0, "# Dry run: Skipping build step")
        ELSE Logged(RunShell(w0, RecipeLine(p, w.config.mode,
                                            w.versions.data[p].new), TRUE),
                    "lp-recipe-update-build output")

\* milestone(): release the milestone of the new version
milestone(w) ==
    LET p == w.project
        w0 == LoadVersions(w)
    IN  IF ~Running(w0) THEN w0
        ELSE IF p \notin DOMAIN w.versions.data
        THEN Logged(w0, "WARNING # Skipping milestone step")
        ELSE IF w.config.dry_run
        THEN Logged(w0, "# Dry run: Skipping milestone step")
        ELSE Logged(RunShell(w0, MilestoneLine(p, w.versions.data[p].new), TRUE),
                    "lp-release-milestone output")

\* ----------------------------------------------------------- Release.run
\* a selector that takes every mode for stable
IsStable_any(mode) == TRUE

\* `if self.config['mode'] == 'stable'` of the open, merge and milestone steps
IsStable(mode) == mode = "stable"

\* the step selector of Release.run(), past the test of the project's flag
SelectStep(w) ==
    LET step == w.step
        mode == w.config.mode
    IN       CASE step = "bump" ->
                    LET w1 == bump_version(w)
                    IN  Banner(w1, "# Bump to version " \o Join(w1.new_version))
               [] step = "sdist" ->
                    create_source_tarball(Banner(w, "# Create source tarball..."))
               [] step = "dpm" ->
                    dance(_prepare_debian_tarball(
                            Banner(w, "# Do the git-dpm dance...")))
               [] step = "open" ->
                    LET w1 == Banner(w, "# Open next version for development...")
                    IN  IF IsStable(mode) THEN open_for_development(w1) ELSE w1
               [] step = "push" ->
                    push(Banner(w, "# Push code and packaging repositories"))
               [] step = "merge" ->
                    LET w1 == Banner(w, "# Merge the release branch into master...")
                    IN  IF IsStable(mode) THEN merge(w1) ELSE w1
               [] step = "build" ->
                    build(Banner(w, "# Update PPA recipe and kick-off the builds"))
               [] step = "milestone" ->
                    LET w1 == Banner(w, "# Release the current milestone...")
                    IN  IF IsStable(mode) THEN milestone(w1) ELSE w1
               [] OTHER -> w

\* Release.run() that runs the step whatever the flag of the project
Release_run_any(w) == SelectStep(w)

\* Release.run(): nothing for a project whose flag is false, else the step
Release_run(w) == IF ~w.config.flags[w.project] THEN w ELSE SelectStep(w)

\* ------------------------------------------------- is_release_required
\* Files of a code repository that may differ from the last matching tag:
\* ignore: the name matches the excluded pathspec .*ignore; version: the
\* patch has a line matching __version__|current_version|^\s*version=;
\* other: the patch has a line that does not
CodeFiles ==
    { [name |-> "setup.py", ignore |-> FALSE, version |-> TRUE, other |-> FALSE],
      [name |-> "checkbox_ng/__init__.py", ignore |-> FALSE, version |-> TRUE, other |-> TRUE],
      [name |-> "checkbox_ng/launcher.py", ignore |-> FALSE, version |-> FALSE, other |-> TRUE],
      [name |-> ".gitignore", ignore |-> TRUE, version |-> FALSE, other |-> TRUE] }

PackagingFiles == {"debian/changelog", "debian/control"}

\* stdout of git diff <tag> -- . ":(exclude).*ignore": the patches of the
\* changed files the pathspec keeps
CodeDiff(changed) == { f.name : f \in { g \in changed : ~g.ignore } }

\* stdout of git diff <tag> -G "__version__|current_version|^\s*version=":
\* the whole patches of the changed files with a matching line
VersionDiff(changed) == { f.name : f \in { g \in changed : g.version } }

\* code_change without the comparison to the version-only diff
CodeChange_any(code_diff, version_diff) == code_diff # {}

\* code_change after `if code_change == version_change: code_change = False`,
\* as its truth value
CodeChange(code_diff, version_diff) ==
    IF code_diff = version_diff THEN FALSE ELSE code_diff # {}

DiffLine(prefix, mode, tail) ==
    "git diff $(git describe --abbrev=0 --tags --match \"" \o prefix
    \o Join(version_pattern(mode)) \o "\")" \o tail

\* a check that never takes the release branch for behind
MustMerge_never(commits_behind, mode) == FALSE

\* `if commits_behind and self.config['mode'] == 'testing'`
MustMerge(commits_behind, mode) == commits_behind # 0 /\ mode = "testing"

\* is_release_required: merged is what a merge of master adds to the diff
is_release_required(w, merged) ==
    LET p == w.project
        mode == w.config.mode
        w1 == RunCode(w, <<"git", "rev-list", "--left-only", "--count",
                           "master...release">>, TRUE, FALSE)
        count == IF Ok(w1) THEN NatStr(w.behind[p]) ELSE <<"f", "a", "t", "a", "l">>
        commits_behind == ParseInt(count)
    IN  IF ~Running(w1) THEN w1
        ELSE IF commits_behind < 0 THEN Raise(w1, "ValueError")
        ELSE IF MustMerge(commits_behind, mode)
        THEN LET w2 == RunCode(w1, <<"git", "merge", "master", "-s", "recursive",
                                     "-Xtheirs">>, TRUE, TRUE)
             IN  IF Ok(w2)
                 THEN [w2 EXCEPT !.result = "True", !.behind[p] = 0,
                                 !.changes[p] = @ \cup merged]
                 ELSE w2
        ELSE LET code_diff == CodeDiff(w.changes[p])
                 version_diff == VersionDiff(w.changes[p])
                 w2 == run(w1, <<DiffLine("v", mode, " -- . \":(exclude).*ignore\"")>>,
                           clone_dir(p), "code" \in w.cloned[p], TRUE, TRUE)
                 w3 == run(w2, <<DiffLine("v", mode,
                              " -G \"__version__|current_version|^\\s*version=\"")>>,
                           clone_dir(p), "code" \in w.cloned[p], TRUE, TRUE)
                 code_change == CodeChange(code_diff, version_diff)
                 w4 == run(w3, <<DiffLine("debian-", mode, " --name-only")>>,
                           packaging_clone_dir(p), "packaging" \in w.cloned[p],
                           TRUE, TRUE)
                 packaging_change == pkgchanges[p] # {}
             IN  IF Ok(w4)
                 THEN [w4 EXCEPT !.result =
                          IF code_change \/ packaging_change THEN "True" ELSE "False"]
                 ELSE w4

\* git clone <url> [<dir>] in cwd: fails when the directory is there already
GitClone(w, argv, which) ==
    LET p == w.project
        w1 == run(w, argv, CWD, srcdir, which \notin w.cloned[p], FALSE)
    IN  IF Running(w) /\ Ok(w1) THEN [w1 EXCEPT !.cloned[p] = @ \cup {which}] ELSE w1

\* __clone(cwd): clone both repositories, check out the release branch,
\* and store a false flag in the release config when no release is required
_Release__clone(w, merged) ==
    LET p == w.project
        w1 == GitClone(Logged(w, "# Cloning code"),
                       <<"git", "clone", code_url(p)>>, "code")
        w2 == GitClone(Logged(w1, "# Cloning packaging"),
                       <<"git", "clone", packaging_url(p), packaging(p)>>, "packaging")
        w3 == IF Running(w2) /\ w2.cloned[p] # {"code", "packaging"}
              THEN Raise(Logged(w2, "ERROR Unable to clone"), "SystemExit")
              ELSE w2
        w4 == RunCode(w3, <<"git", "fetch", "origin", "release:release">>, TRUE, FALSE)
        w5 == IF TargetUser # User
              THEN RunCode(RunCode(w4, <<"git", "remote", "get-url", "origin">>,
                                   TRUE, TRUE),
                           <<"git", "remote", "set-url", "origin",
                             "git+ssh://" \o TargetUser \o "@git.launchpad.net/~"
                             \o TargetUser \o "/" \o p>>,
                           TRUE, TRUE)
              ELSE w4
        w6 == RunCode(w5, <<"git", "checkout", "-b", "release">>, TRUE, FALSE)
        w7 == IF Running(w6) /\ ~Ok(w6)
              THEN RunCode(w6, <<"git", "checkout", "release">>, TRUE, TRUE)
              ELSE w6
        w8 == is_release_required(w7, merged)
    IN  IF ~Running(w8) THEN w8
        ELSE IF w8.result = "True"
        THEN Logged(w8, "Release required: True")
        ELSE Logged([w8 EXCEPT !.config.flags[p] = FALSE,
                               !.writes = @ \cup {<<p, "config">>}],
                    "Release required: False (Json config updated!)")

\* --------------------------------------------- cleanup, clone, changelog
\* directories of the monorepo that hold a debian/ directory, as paths
\* below its root
MonoPaths ==
    << <<"checkbox-ng">>, <<"checkbox-support">>, <<"provider", "s", "/", "base">> >>

\* the directories os.walk(CWD) finds a debian/ in: project_path,
\* project_root and the tags of the repository at project_root
RECURSIVE PackagingDirs(_, _)
PackagingDirs(cl, ps) ==
    IF ps = <<>> THEN <<>>
    ELSE (IF "packaging" \in cl[Head(ps)]
          THEN << [path |-> <<".">>, root |-> packaging_clone_dir(Head(ps)),
                   tagseq |-> <<>>] >>
          ELSE <<>>) \o PackagingDirs(cl, Tail(ps))

DebianDirs(hasMono, cl) ==
    (IF hasMono
     THEN [i \in 1..Len(MonoPaths) |->
             [path |-> MonoPaths[i], root |-> MonoRoot, tagseq |-> monotags]]
     ELSE <<>>) \o PackagingDirs(cl, Projects)

\* the tag lookup of clone for one directory; a non-zero return code (no
\* matching tag) skips the directory
RECURSIVE DescribeAll(_, _, _)
DescribeAll(w, dirs, mode) ==
    IF dirs = <<>> THEN w
    ELSE LET d == Head(dirs)
             project_name == Replace(d.path, <<"s", "/">>, <<"-">>)
             pat == project_name \o <<"-", "v">> \o version_pattern(mode)
             w1 == run(w, <<"git", "describe", "--abbrev=0", "--tags", "--match",
                            Join(pat)>>, d.root, TRUE,
                       Describe(d.tagseq, pat) # <<>>, FALSE)
         IN  DescribeAll(w1, Tail(dirs), mode)

\* a clone step that takes every working directory for empty
IsEmpty_always(w) == TRUE

\* the working directory has no entry
IsEmpty(w) == ~w.mono /\ w.orig = {} /\ \A p \in ProjectSet : w.cloned[p] = {}

\* a clone step that runs the private per-project clone of the first
\* project, the one method that stores a flag in the release config
clone_private(w, mode) == _Release__clone([w EXCEPT !.project = Projects[1]], {})

\* Release.clone(mode): clone the monorepo into an empty working
\* directory, then look up the last tag of every packaged directory
clone(w, mode) ==
    IF ~srcdir THEN Raise(w, "FileNotFoundError")
    ELSE LET w1 == IF IsEmpty(w)
                   THEN run(Banner(w, "# Cloning " \o ORIGIN \o " ..."),
                            <<"git", "clone", ORIGIN>>, CWD, TRUE, TRUE, FALSE)
                   ELSE w
             w2 == IF IsEmpty(w) /\ Ok(w1) THEN [w1 EXCEPT !.mono = TRUE] ELSE w1
         IN  DescribeAll(w2, DebianDirs(w2.mono, w2.cloned), mode)

\* Release.changelog(): after versions.json it loads the release config
\* through the name `args`, which is bound only inside main(), so the step
\* ends in NameError before it reads a record or writes the changelog
changelog_step(w) == Raise(LoadVersions(w), "NameError")

\* ------------------------------------------------------------ invocation
Steps == {"cleanup", "clone", "changelog"} \cup ProjectSteps

\* --mode and --dry-run (or their environment fallbacks) of an invocation
CliSet == { [mode |-> "testing", dry_run |-> FALSE],
            [mode |-> "stable", dry_run |-> TRUE] }

\* the parsed command line; project "" when --project is not given
Args(step, project, cli) ==
    [step |-> step, project |-> project, mode |-> cli.mode, dry_run |-> cli.dry_run]

\* the most external commands one run of the step issues
RunLength(step) ==
    CASE step = "bump" -> 6
      [] step = "dpm" -> 7
      [] step \in {"open", "push"} -> 3
      [] step = "merge" -> 2
      [] step \in {"sdist", "build", "milestone"} -> 1
      [] step = "clone" -> 1 + Len(MonoPaths) + Len(Projects)
      [] step = "__clone" -> 11
      [] OTHER -> 0

\* no command of the run fails, or one does
FailSets(step) == {{}} \cup { {i} : i \in 1..RunLength(step) }

\* up to two commands of the run fail
FailPairs(step) == { f \in SUBSET (1..RunLength(step)) : Cardinality(f) <= 2 }

NoVersion == <<>>

\* versions stay in the modelled range
WithinBounds(w) ==
    \A p \in ProjectSet : w.cfgver[p] \in VersionStrings \cup {NoVersion}

\* the exception that ended the run, or "ok"
Outcome(w) == IF Running(w) THEN "ok" ELSE w.status

Snapshot ==
    [config |-> config, versions |-> versions, changelog |-> changelog,
     cfgver |-> cfgver, dist |-> dist, orig |-> orig, mono |-> mono,
     cloned |-> cloned, srcdir |-> srcdir, behind |-> behind,
     changes |-> changes]

NoArgs == [step |-> "none", project |-> "", mode |-> "testing", dry_run |-> FALSE]

NoRun == [project |-> "", step |-> "none", flag |-> FALSE, first |-> 0,
          status |-> "ok"]

NoSelf == [current_version |-> <<>>, new_version |-> <<>>,
           debian_new_version |-> <<>>, orig_tarball |-> ""]

\* the world of a finished run becomes the state; first is the length of
\* the trace before the run
Commit(w, first) ==
    /\ WithinBounds(w)
    /\ cmds' = w.cmds
    /\ log' = w.log
    /\ writes' = w.writes
    /\ config' = w.config
    /\ mono' = w.mono
    /\ cloned' = w.cloned
    /\ cfgver' = w.cfgver
    /\ dist' = w.dist
    /\ orig' = w.orig
    /\ versions' = w.versions
    /\ changelog' = w.changelog
    /\ behind' = w.behind
    /\ changes' = w.changes
    /\ result' = w.result
    /\ self' = [current_version |-> w.current_version,
                new_version |-> w.new_version,
                debian_new_version |-> w.debian_new_version,
                orig_tarball |-> w.orig_tarball]
    /\ lastrun' = [project |-> w.project, step |-> w.step,
                   flag |-> IF w.project \in ProjectSet
                            THEN config.flags[w.project] ELSE FALSE,
                   first |-> first, status |-> Outcome(w)]
    /\ UNCHANGED <<srcdir, entryp, tags, monotags, pkgchanges>>

\* main() with --step cleanup: Release.cleanup() removes and recreates src/
Cleanup(cli) ==
    /\ pc = "idle"
    /\ args' = Args("cleanup", "", cli)
    /\ before' = Snapshot
    /\ srcdir' = TRUE
    /\ mono' = FALSE
    /\ cloned' = [p \in ProjectSet |-> {}]
    /\ cfgver' = [p \in ProjectSet |-> NoVersion]
    /\ entryp' = [p \in ProjectSet |-> "none"]
    /\ tags' = [p \in ProjectSet |-> <<>>]
    /\ dist' = [p \in ProjectSet |-> {}]
    /\ orig' = {}
    /\ behind' = [p \in ProjectSet |-> 0]
    /\ changes' = [p \in ProjectSet |-> {}]
    /\ pkgchanges' = [p \in ProjectSet |-> {}]
    /\ cmds' = <<>>
    /\ log' = <<>>
    /\ writes' = {}
    /\ status' = "ok"
    /\ pc' = "done"
    /\ lastrun' = [project |-> "", step |-> "cleanup", flag |-> FALSE,
                   first |-> 0, status |-> "ok"]
    /\ UNCHANGED <<config, monotags, versions, changelog, pending, self, result>>

\* main() with --step clone: Release.clone(args.mode)
Clone(cli, fail) ==
    /\ pc = "idle"
    /\ args' = Args("clone", "", cli)
    /\ before' = Snapshot
    /\ \E w \in {clone(World("", "clone", fail, TRUE), cli.mode)} :
           Commit(w, 0) /\ status' = Outcome(w)
    /\ pc' = "done"
    /\ UNCHANGED pending

\* main() with --step changelog: Release.changelog()
Changelog(cli) ==
    /\ pc = "idle"
    /\ args' = Args("changelog", "", cli)
    /\ before' = Snapshot
    /\ \E w \in {changelog_step(World("", "changelog", {}, TRUE))} :
           Commit(w, 0) /\ status' = Outcome(w)
    /\ pc' = "done"
    /\ UNCHANGED pending

\* a Release that takes its mode and dry-run from the command line
Release_cli(a, fail, fresh) ==
    [World(a.project, a.step, fail, fresh) EXCEPT !.config.mode = a.mode,
                                                  !.config.dry_run = a.dry_run]

\* Release(args): the project and the step are those of the command line,
\* the config (flags, mode, dry_run) is loaded from the config file;
\* args.mode and args.dry_run are not read
Release(a, fail, fresh) == World(a.project, a.step, fail, fresh)

\* main() with --project: Release(args).run()
RunProject(step, p, cli, fail) ==
    /\ pc = "idle"
    /\ args' = Args(step, p, cli)
    /\ before' = Snapshot
    /\ \E w \in {Release_run(Release(Args(step, p, cli), fail, TRUE))} :
           Commit(w, 0) /\ status' = Outcome(w)
    /\ pc' = "done"
    /\ UNCHANGED pending

\* a batch that takes some project for flagged whatever the config says
release_required_always(cfg) == TRUE

\* release_required of main(): some project key of the config is true
release_required(cfg) == \E i \in 1..Len(BoxKeys) : cfg.flags[BoxKeys[i]]

\* main() without --project: SystemExit when no project of the config is
\* flagged, else the loop over the projects starts
StartLoop(step, cli) ==
    /\ pc = "idle"
    /\ args' = Args(step, "", cli)
    /\ before' = Snapshot
    /\ cmds' = <<>>
    /\ log' = <<>>
    /\ writes' = {}
    /\ IF release_required(config)
       THEN pc' = "loop" /\ pending' = BoxKeys /\ status' = "running"
       ELSE pc' = "done" /\ pending' = <<>> /\ status' = "SystemExit"
    /\ UNCHANGED <<disk, lastrun, self, result>>

\* a loop that goes on to the next project after an exception
Remaining_all(w, pend) == Tail(pend)

\* the projects the loop of main() still runs after a turn: an exception
\* propagates out of the loop
Remaining(w, pend) == IF Running(w) THEN Tail(pend) ELSE <<>>

\* one turn of main()'s loop: Release(args).run() for the next project; an
\* exception ends the process
LoopStep(fail) ==
    /\ pc = "loop"
    /\ pending # <<>>
    /\ \E w \in {Release_run(Release([args EXCEPT !.project = Head(pending)],
                                     fail, FALSE))} :
           /\ Commit(w, Len(cmds))
           /\ pending' = Remaining(w, pending)
           /\ pc' = IF Remaining(w, pending) = <<>> THEN "done" ELSE "loop"
           /\ status' = IF ~Running(w) THEN w.status
                        ELSE IF Tail(pending) = <<>> THEN "ok" ELSE "running"
    /\ UNCHANGED <<args, before>>

\* Release.__clone(cwd) for a project: not called by main()
PrivateClone(p, fail, merged) ==
    /\ pc = "idle"
    /\ args' = Args("__clone", p, [mode |-> "testing", dry_run |-> FALSE])
    /\ before' = Snapshot
    /\ \E w \in {_Release__clone(World(p, "__clone", fail, TRUE), merged)} :
           Commit(w, 0) /\ status' = Outcome(w)
    /\ pc' = "done"
    /\ UNCHANGED pending

\* the process is gone: the next invocation starts with nothing in memory
Exit ==
    /\ pc = "done"
    /\ pc' = "idle"
    /\ args' = NoArgs
    /\ cmds' = <<>>
    /\ log' = <<>>
    /\ writes' = {}
    /\ status' = "ok"
    /\ lastrun' = NoRun
    /\ self' = NoSelf
    /\ result' = "none"
    /\ before' = Snapshot
    /\ UNCHANGED <<disk, pending>>

\* ---------------------------------------------------------- initial states
ConfigSet == [flags : [ProjectSet -> BOOLEAN], mode : Modes, dry_run : BOOLEAN]

V(minor, release, N) == Serialize([minor |-> minor, release |-> release, N |-> N])

\* a clone of a project as a release starts from it: the version of its
\* .bumpversion.cfg, its sdist entry point, the tags of its code repository
RepoStates ==
    { [cfgver |-> V(0, "dev", 0), entryp |-> "setup.py",
       tags |-> << <<"v", "0", ".", "9">> >>],
      [cfgver |-> V(0, "rc", 1), entryp |-> "manage.py",
       tags |-> << <<"v", "0", ".", "9">>, <<"v", "1", ".", "0", "r", "c", "1">> >>],
      [cfgver |-> V(0, "final", 0), entryp |-> "none",
       tags |-> << <<"v", "1", ".", "0", "r", "c", "1">> >>],
      [cfgver |-> NoVersion, entryp |-> "setup.py", tags |-> <<>>] }

MonoTagSets ==
    { <<>>,
      << <<"checkbox-ng", "-", "v", "1", ".", "0">>,
         <<"checkbox-ng", "-", "v", "1", ".", "1", "r", "c", "1">>,
         <<"provider-base", "-", "v", "1", ".", "0", "r", "c", "2">> >> }

InitProc ==
    /\ args = NoArgs
    /\ pc = "idle"
    /\ pending = <<>>
    /\ cmds = <<>>
    /\ log = <<>>
    /\ writes = {}
    /\ status = "ok"
    /\ lastrun = NoRun
    /\ self = NoSelf
    /\ result = "none"
    /\ before = Snapshot

\* the clones of the projects in `there`, each in a state of RepoStates
InitRepos(there, repo) ==
    /\ cloned = [p \in ProjectSet |->
                   IF p \in there THEN {"code", "packaging"} ELSE {}]
    /\ cfgver = [p \in ProjectSet |->
                   IF p \in there THEN repo[p].cfgver ELSE NoVersion]
    /\ entryp = [p \in ProjectSet |->
                   IF p \in there THEN repo[p].entryp ELSE "none"]
    /\ tags = [p \in ProjectSet |-> IF p \in there THEN repo[p].tags ELSE <<>>]

\* versions.json and dist/ as a bump and an sdist of the version in
\* .bumpversion.cfg leave them, for the projects in `released`
InitReleased(released) ==
    /\ versions =
         [exists |-> released # {},
          data |-> [p \in released |->
                      [last_stable |-> <<"0", ".", "9">>,
                       current |-> V(0, "dev", 0),
                       new |-> cfgver[p]]]]
    /\ dist = [p \in ProjectSet |-> IF p \in released THEN {cfgver[p]} ELSE {}]

InitRest ==
    /\ mono = FALSE
    /\ orig = {}
    /\ changelog = <<>>
    /\ behind = [p \in ProjectSet |-> 0]
    /\ changes = [p \in ProjectSet |-> {}]
    /\ pkgchanges = [p \in ProjectSet |-> {}]

\* the working directory before an invocation: missing or empty, or
\* holding the clones of the projects, fresh or with a release under way
InitDisk ==
    \/ /\ InitRepos({}, [p \in ProjectSet |-> CHOOSE r \in RepoStates : TRUE])
       /\ srcdir \in BOOLEAN
       /\ monotags \in MonoTagSets
       /\ InitReleased({})
    \/ /\ \E repo \in [ProjectSet -> RepoStates] : InitRepos(ProjectSet, repo)
       /\ srcdir = TRUE
       /\ monotags = <<>>
       /\ \E released \in {{}, { p \in ProjectSet : cfgver[p] # NoVersion }} :
            InitReleased(released)

\* one invocation of main(), from any release config and working directory
Init ==
    /\ config \in ConfigSet
    /\ InitDisk
    /\ InitRest
    /\ InitProc

Next ==
    \/ \E cli \in CliSet : Cleanup(cli)
    \/ \E cli \in CliSet, fail \in FailSets("clone") : Clone(cli, fail)
    \/ \E cli \in CliSet : Changelog(cli)
    \/ \E step \in ProjectSteps, p \in ProjectSet, cli \in CliSet :
          \E fail \in FailSets(step) : RunProject(step, p, cli, fail)
    \/ \E step \in ProjectSteps, cli \in CliSet : StartLoop(step, cli)
    \/ \E fail \in FailSets(args.step) : LoopStep(fail)

Spec == Init /\ [][Next]_vars

\* invocations of the bump step, one after the other
NextBump ==
    \/ \E p \in ProjectSet, cli \in CliSet, fail \in FailSets("bump") :
          RunProject("bump", p, cli, fail)
    \/ \E cli \in CliSet : StartLoop("bump", cli)
    \/ \E fail \in FailSets(args.step) : LoopStep(fail)
    \/ Exit

\* fresh clones of both projects in the same state, no versions.json yet
InitBump ==
    /\ config \in ConfigSet
    /\ config.dry_run = FALSE
    /\ \E r \in RepoStates : InitRepos(ProjectSet, [p \in ProjectSet |-> r])
    /\ srcdir = TRUE
    /\ monotags = <<>>
    /\ InitReleased({})
    /\ InitRest
    /\ InitProc

SpecBump == InitBump /\ [][NextBump]_vars

\* invocations of the cleanup and clone steps, one after the other
NextWorkdir ==
    \/ \E cli \in CliSet : Cleanup(cli)
    \/ \E cli \in CliSet, fail \in FailSets("clone") : Clone(cli, fail)
    \/ Exit

SpecWorkdir == Init /\ [][NextWorkdir]_vars

\* what a merge of master may add to the diff of the release branch
MergedSets ==
    { {}, { f \in CodeFiles : f.name = "checkbox_ng/launcher.py" } }

\* a release config that still has every project flagged, the clones there
\* or not yet, and any state of the repositories since their last tags
InitNecessity ==
    /\ config \in ConfigSet
    /\ config.dry_run = FALSE
    /\ \A p \in ProjectSet : config.flags[p]
    /\ \E there \in {{}, ProjectSet} :
         InitRepos(there, [p \in ProjectSet |->
                             [cfgver |-> V(0, "dev", 0), entryp |-> "setup.py",
                              tags |-> << <<"v", "0", ".", "9">> >>]])
    /\ srcdir = TRUE
    /\ monotags = <<>>
    /\ InitReleased({})
    /\ mono = FALSE
    /\ orig = {}
    /\ changelog = <<>>
    /\ \E b \in 0..MaxBehind, c \in SUBSET CodeFiles, k \in SUBSET PackagingFiles :
         /\ behind = [p \in ProjectSet |-> b]
         /\ changes = [p \in ProjectSet |-> c]
         /\ pkgchanges = [p \in ProjectSet |-> k]
    /\ InitProc

\* one call of Release.__clone(), which evaluates is_release_required
NextNecessity ==
    \E p \in ProjectSet, fail \in FailPairs("__clone"), merged \in MergedSets :
        PrivateClone(p, fail, merged)

SpecNecessity == InitNecessity /\ [][NextNecessity]_vars

\* ---------------------------------------------- tags and the stable pattern
\* versions a tag may carry: the final ones and the release candidates
TagVersions ==
    { <<"1", ".">> \o NatStr(m) : m \in 0..MaxMinor } \cup
    { <<"1", ".">> \o NatStr(m) \o <<"r", "c">> \o NatStr(n) :
        m \in 0..MaxMinor, n \in 0..MaxRc }

\* the tags of a repository: an old final tag or none, then the tag of t
TagSeq(prefix, old, t) ==
    IF old THEN <<prefix \o <<"0", ".", "9">>, prefix \o t>> ELSE <<prefix \o t>>

\* clones of both projects and the monorepo, their latest tag of any of
\* TagVersions
InitTags ==
    /\ config \in ConfigSet
    /\ config.dry_run = FALSE
    /\ cloned = [p \in ProjectSet |-> {"code", "packaging"}]
    /\ \E v \in {V(0, "dev", 0), V(0, "rc", 1)} :
         cfgver = [p \in ProjectSet |-> v]
    /\ entryp = [p \in ProjectSet |-> "setup.py"]
    /\ \E t \in TagVersions, old \in BOOLEAN :
         /\ tags = [p \in ProjectSet |-> TagSeq(<<"v">>, old, t)]
         /\ monotags = TagSeq(<<"checkbox-ng", "-", "v">>, old, t)
    /\ srcdir = TRUE
    /\ mono = TRUE
    /\ InitReleased({})
    /\ orig = {}
    /\ changelog = <<>>
    /\ behind = [p \in ProjectSet |-> 0]
    /\ changes = [p \in ProjectSet |-> {}]
    /\ pkgchanges = [p \in ProjectSet |-> {}]
    /\ InitProc

\* the steps that look up the latest tag: clone, and bump for last_stable
NextTags ==
    \/ \E cli \in CliSet, fail \in FailSets("clone") : Clone(cli, fail)
    \/ \E p \in ProjectSet, cli \in CliSet, fail \in FailSets("bump") :
          RunProject("bump", p, cli, fail)

SpecTags == InitTags /\ [][NextTags]_vars

\* ================================================================ properties
\* commands, written files and persisted state of one project
CmdsOf(p) == { i \in 1..Len(cmds) : cmds[i].proj = p }

WritesOf(p) == { x \in writes : x[1] = p }

Record(vs, p) == IF vs.exists /\ p \in DOMAIN vs.data THEN <<vs.data[p]>> ELSE <<>>

IsPush(c) == Len(c.argv) >= 2 /\ c.argv[1] = "git" /\ c.argv[2] = "push"

IsProposeMerge(c) == \E p \in ProjectSet : c.argv = <<ProposeMergeLine(p)>>

\* C1: a run of a project step (bump, sdist, dpm, open, push, merge, build,
\* milestone) for a project whose flag in the release config is false issues
\* no external command, logs nothing, writes no file, leaves the persisted
\* state of the project as it was and returns without an exception.
C1_UnflaggedNoOp ==
    (lastrun.step \in ProjectSteps /\ ~lastrun.flag) =>
        /\ CmdsOf(lastrun.project) = {}
        /\ Len(cmds) = lastrun.first
        /\ WritesOf(lastrun.project) = {}
        /\ lastrun.status = "ok"
        /\ (args.project # "" => log = <<>> /\ status = "ok")
        /\ config = before.config
        /\ changelog = before.changelog
        /\ Record(versions, lastrun.project) = Record(before.versions, lastrun.project)
        /\ cfgver[lastrun.project] = before.cfgver[lastrun.project]
        /\ dist[lastrun.project] = before.dist[lastrun.project]
        /\ orig = before.orig \/ args.project = ""

\* C1 witness: in a batch, after the step issued commands for a flagged
\* project, it ran for a cloned project whose flag is false.
C1_Witness ==
    /\ lastrun.step = "push"
    /\ ~lastrun.flag
    /\ lastrun.first > 0
    /\ cloned[lastrun.project] = {"code", "packaging"}
    /\ pc = "done"

\* C2: when dry_run of the release config is set, every git push the push
\* and merge steps issue carries --dry-run, and lp-propose-merge is never
\* invoked, whatever the project, the mode and the command line.
C2_DryRunNoMutation ==
    (config.dry_run /\ args.step \in {"push", "merge"}) =>
        \A i \in 1..Len(cmds) :
            /\ IsPush(cmds[i]) => cmds[i].argv[3] = "--dry-run"
            /\ ~IsProposeMerge(cmds[i])

\* C2 witness: a dry-run merge in stable mode issued its branch deletion.
C2_Witness ==
    /\ config.dry_run
    /\ config.mode = "stable"
    /\ args.step = "merge"
    /\ \E i \in 1..Len(cmds) : IsPush(cmds[i]) /\ cmds[i].argv[5] = "--delete"
    /\ pc = "done"

\* the commands of the last Release.run(), as indices of the trace
RunCmds == { i \in 1..Len(cmds) : i > lastrun.first }

IsTagLookup(c) == Len(c.argv) >= 2 /\ c.argv[1] = "git" /\ c.argv[2] = "describe"

IsBranchCreation(c) == c.argv = <<"git", "checkout", "-b", "release">>

IsBumpversion(c) == c.argv[1] = "bumpversion"

IsCommit(c) == Len(c.argv) >= 2 /\ c.argv[1] = "git" /\ c.argv[2] = "commit"

IsTag(c) == Len(c.argv) >= 2 /\ c.argv[1] = "git" /\ c.argv[2] = "tag"

\* C3: an external command that returns non-zero, other than a tag lookup
\* and the first-time creation of the release branch, is the last command
\* the process issues, and the process ends with a non-zero exit status.
\* The code does not keep this: run() aborts only where the caller passes
\* check=True, and the git clone of the clone step and the dry-run branch
\* deletion of merge do not.
C3_NonZeroAborts ==
    \A i \in 1..Len(cmds) :
        (cmds[i].rc # 0 /\ ~IsTagLookup(cmds[i]) /\ ~IsBranchCreation(cmds[i])) =>
            /\ i = Len(cmds)
            /\ status \notin {"ok", "running"}

\* C4: a bump of a flagged project in which bumpversion and every git
\* command returned zero has committed, created the tag, written the record
\* of the project to versions.json, and returned normally.  The code does
\* not keep this: the arguments of git tag name the unbound `project`.
C4_BumpCompletes ==
    ( /\ lastrun.step = "bump"
      /\ lastrun.flag
      /\ \E i \in RunCmds : IsBumpversion(cmds[i])
      /\ \E i \in RunCmds : IsCommit(cmds[i])
      /\ \A i \in RunCmds : cmds[i].rc = 0 ) =>
        /\ \E i \in RunCmds : IsTag(cmds[i])
        /\ <<lastrun.project, "versions.json">> \in writes
        /\ lastrun.status = "ok"

\* the invocation started with the record of p as a bump of p left it: the
\* record names the version .bumpversion.cfg holds
SavedBefore(p) ==
    /\ before.versions.exists
    /\ p \in DOMAIN before.versions.data
    /\ before.versions.data[p].new = before.cfgver[p]

SavedNow(p) == args.step = "bump" /\ <<p, "versions.json">> \in writes

\* C5: when a bump of a project saves its record and the bump of the same
\* project before it had saved one too (no other step in between), the
\* record in versions.json has the last_stable of the first bump, its
\* current is the new version the first bump wrote, and its new is the
\* version the second bump produced.
C5_TwoBumps ==
    \A p \in ProjectSet :
        (SavedBefore(p) /\ SavedNow(p)) =>
            /\ versions.exists /\ p \in DOMAIN versions.data
            /\ versions.data[p].last_stable = before.versions.data[p].last_stable
            /\ versions.data[p].current = before.versions.data[p].new
            /\ versions.data[p].new = cfgver[p]
            /\ cfgver[p] # before.cfgver[p]

\* C5 witness: the second of two bumps of a project has saved its record,
\* and the process has ended.
C5_Witness ==
    /\ pc = "done"
    /\ \E p \in ProjectSet :
         /\ SavedBefore(p)
         /\ SavedNow(p)
         /\ versions.data[p].current # before.versions.data[p].current

BumpCalls == { i \in RunCmds : IsBumpversion(cmds[i]) }

FromDev == Contains(self.current_version, <<"d", "e", "v">>)

FromRc == ~FromDev /\ Contains(self.current_version, <<"r", "c">>)

\* C6: in stable mode a bump from a dev version issues exactly two
\* bumpversion calls (never more, and two once it reports a version), a bump
\* from an rc version exactly one, all of the part `release`; the version
\* it reports is the one the last call left in .bumpversion.cfg, a final
\* version.
C6_StableBumpCalls ==
    (lastrun.step = "bump" /\ lastrun.flag /\ config.mode = "stable") =>
        /\ FromDev => Cardinality(BumpCalls) <= 2
        /\ FromRc => Cardinality(BumpCalls) <= 1
        /\ (FromDev \/ FromRc) =>
              \A i \in BumpCalls : cmds[i].argv[2] = "release"
        /\ self.new_version # <<>> =>
              /\ FromDev => Cardinality(BumpCalls) = 2
              /\ FromRc => Cardinality(BumpCalls) = 1
              /\ self.new_version = cfgver[lastrun.project]
              /\ Parse(self.new_version).release = "final"
              /\ \A i \in BumpCalls : cmds[i].rc = 0

\* C6 witness: a stable bump from a dev version reported its new version.
C6_Witness ==
    /\ lastrun.step = "bump"
    /\ lastrun.flag
    /\ config.mode = "stable"
    /\ FromDev
    /\ self.new_version # <<>>
    /\ Cardinality(BumpCalls) = 2

IsMonoClone(c) == c.argv = <<"git", "clone", ORIGIN>>

\* src/ was there and had no entry when the invocation started
WasEmpty ==
    /\ before.srcdir
    /\ ~before.mono
    /\ before.orig = {}
    /\ \A p \in ProjectSet : before.cloned[p] = {}

\* C7: a clone step issues git clone of the upstream monorepo, as its first
\* command and once, if and only if src/ was an empty directory when the
\* step started; so over any sequence of cleanup and clone steps no clone
\* step clones into a working directory that has an entry.
C7_CloneIffEmpty ==
    (args.step = "clone" /\ pc = "done") =>
        /\ (\E i \in 1..Len(cmds) : IsMonoClone(cmds[i])) <=> WasEmpty
        /\ \A i \in 1..Len(cmds) : IsMonoClone(cmds[i]) => i = 1
        /\ (WasEmpty /\ cmds[1].rc = 0) <=> (mono /\ ~before.mono)

\* C7 witness: a clone step found the monorepo cloned by an earlier clone
\* step, issued its tag lookups and no git clone.
C7_Witness ==
    /\ args.step = "clone"
    /\ pc = "done"
    /\ before.mono
    /\ cmds # <<>>
    /\ \A i \in 1..Len(cmds) : ~IsMonoClone(cmds[i])

\* the release-necessity check of the last call of __clone returned
Checked == lastrun.step = "__clone" /\ result # "none"

\* the diffs since the last matching tag, as the call found them
CodeDiffBefore == CodeDiff(before.changes[lastrun.project])

VersionDiffBefore == VersionDiff(before.changes[lastrun.project])

PackagingDiff == pkgchanges[lastrun.project]

BehindBefore == before.behind[lastrun.project]

\* C8 as stated: whenever the code diff and the version-only diff are
\* identical, the result is "not required" unless the packaging diff is
\* non-empty, in every mode and state of the release branch.  Testing mode
\* with the release branch behind master refutes it.
C8_IdenticalDiffs ==
    (Checked /\ CodeDiffBefore = VersionDiffBefore) =>
        (result = "False" <=> PackagingDiff = {})

\* C8 amended: whenever the code diff and the version-only diff are
\* identical, the result is "not required" unless the packaging diff is
\* non-empty or, in testing mode, the release branch is behind master.
C8_IdenticalDiffsUnlessBehind ==
    (Checked /\ CodeDiffBefore = VersionDiffBefore) =>
        (result = "False" <=>
            /\ PackagingDiff = {}
            /\ ~(config.mode = "testing" /\ BehindBefore > 0))

\* C8 witness: the code diff was not empty and identical to the
\* version-only diff, the packaging had no change, and the check returned
\* "not required".
C8_Witness ==
    /\ Checked
    /\ CodeDiffBefore # {}
    /\ CodeDiffBefore = VersionDiffBefore
    /\ PackagingDiff = {}
    /\ result = "False"
    /\ ~config.flags[lastrun.project]

\* a change of the code repository that git diff keeps and that is not a
\* change of a version line
HasOtherChange(changed) == \E f \in changed : ~f.ignore /\ f.other

\* C9: the check returns required whenever the code repository has a
\* change that is not version-only, and whenever the packaging repository
\* has a change; so it returns not required only when neither is so.  The
\* code does not keep this: git diff -G prints the whole patch of a file
\* with a version line, so a file that changes both equals its own
\* version-only diff.
C9_RequiredOnRealChange ==
    Checked =>
        ((HasOtherChange(before.changes[lastrun.project]) \/ PackagingDiff # {})
            => result = "True")

IsRevList(c) == c.argv[1] = "git" /\ c.argv[2] = "rev-list"

IsMerge(c) == c.argv = <<"git", "merge", "master", "-s", "recursive", "-Xtheirs">>

IsShellLine(c) == Len(c.argv) = 1

\* C10: once git rev-list has given the count of commits the release
\* branch is behind master: in testing mode with a count of one or more the
\* next command is git merge master -s recursive -Xtheirs, no diff is
\* computed, and the check returns required when the merge returned zero
\* (it returns nothing else); in stable mode, and with a count of zero, no
\* merge is issued and the result is the one the diffs give.
C10_BehindForcesRelease ==
    \A i \in 1..Len(cmds) :
        (lastrun.step = "__clone" /\ IsRevList(cmds[i]) /\ cmds[i].rc = 0) =>
            IF config.mode = "testing" /\ BehindBefore >= 1
            THEN /\ Len(cmds) = i + 1
                 /\ IsMerge(cmds[i + 1])
                 /\ cmds[i + 1].rc = 0 <=> result = "True"
                 /\ result # "False"
                 /\ cmds[i + 1].rc = 0 => behind[lastrun.project] = 0
            ELSE /\ \A j \in 1..Len(cmds) : ~IsMerge(cmds[j])
                 /\ behind = before.behind
                 /\ result # "none" =>
                       /\ \E j \in 1..Len(cmds) : IsShellLine(cmds[j])
                       /\ result = "True" <=>
                             \/ CodeDiffBefore # VersionDiffBefore
                             \/ PackagingDiff # {}

\* C10 witness: in testing mode the release branch was behind master, code
\* and packaging had no change since their tags, master was merged and the
\* check returned required.
C10_Witness ==
    /\ lastrun.step = "__clone"
    /\ config.mode = "testing"
    /\ BehindBefore >= 1
    /\ before.changes[lastrun.project] = {}
    /\ PackagingDiff = {}
    /\ \E i \in 1..Len(cmds) : IsMerge(cmds[i]) /\ cmds[i].rc = 0
    /\ result = "True"
    /\ config.flags[lastrun.project]

StableOnlySteps == {"open", "merge", "milestone"}

IsDelete(c) == IsPush(c) /\ c.argv[Len(c.argv) - 1] = "--delete"

\* C12: a merge run for a flagged project in stable mode: without dry_run
\* its first command is lp-propose-merge, and the deletion of the remote
\* release branch is its second command, issued only after lp-propose-merge
\* returned zero; with dry_run its only command is the deletion with
\* --dry-run, and lp-propose-merge is not issued.
C12_MergeOrder ==
    (lastrun.step = "merge" /\ lastrun.flag /\ config.mode = "stable") =>
        IF config.dry_run
        THEN /\ Cardinality(RunCmds) <= 1
             /\ \A i \in RunCmds :
                    /\ IsDelete(cmds[i])
                    /\ cmds[i].argv[3] = "--dry-run"
                    /\ ~IsProposeMerge(cmds[i])
        ELSE /\ RunCmds # {}
             /\ Cardinality(RunCmds) <= 2
             /\ IsProposeMerge(cmds[lastrun.first + 1])
             /\ \A i \in RunCmds :
                    IsDelete(cmds[i]) =>
                        /\ i = lastrun.first + 2
                        /\ cmds[i - 1].rc = 0
                        /\ cmds[i].argv[3] # "--dry-run"
             /\ (cmds[lastrun.first + 1].rc = 0
                   /\ "code" \in cloned[lastrun.project]) =>
                    Cardinality(RunCmds) = 2 /\ IsDelete(cmds[lastrun.first + 2])

\* C12 witness: a stable merge without dry_run proposed the merge and then
\* deleted the release branch.
C12_Witness ==
    /\ lastrun.step = "merge"
    /\ lastrun.flag
    /\ config.mode = "stable"
    /\ ~config.dry_run
    /\ Cardinality(RunCmds) = 2
    /\ \A i \in RunCmds : cmds[i].rc = 0
    /\ lastrun.status = "ok"

SkipLines == {"WARNING # Skipping build step", "WARNING # Skipping milestone step"}

\* C13: when versions.json holds no record of the project, a build run and
\* a stable-mode milestone run for the flagged project issue no external
\* command, log that the step is skipped and return normally.  The code
\* does not keep this when versions.json itself is missing: json.load(open(
\* 'versions.json')) raises FileNotFoundError.
C13_SkipWithoutRecord ==
    ( /\ \/ lastrun.step = "build"
         \/ lastrun.step = "milestone" /\ config.mode = "stable"
      /\ lastrun.flag
      /\ Record(before.versions, lastrun.project) = <<>> ) =>
        /\ RunCmds = {}
        /\ lastrun.status = "ok"
        /\ \E i \in 1..Len(log) : log[i] \in SkipLines

\* the command line the build step is to issue for the project: the
\* recipe is <project>-<mode>
ExpectedRecipeLine(p) ==
    "./support/release/git/lp-recipe-update-build " \o p \o " --recipe " \o p
    \o "-" \o config.mode \o " -n " \o Join(before.versions.data[p].new)
    \o " --credentials $LP_CREDS"

HasRecord(p) == Record(before.versions, p) # <<>>

\* C14 as stated: when versions.json holds a record of the flagged project,
\* a build run issues the recipe-build trigger exactly once, with the new
\* version of the record and the recipe <project>-testing or
\* <project>-stable.  A dry run refutes it.
C14_BuildOnce ==
    (lastrun.step = "build" /\ lastrun.flag /\ HasRecord(lastrun.project)) =>
        /\ Cardinality(RunCmds) = 1
        /\ \A i \in RunCmds : cmds[i].argv = <<ExpectedRecipeLine(lastrun.project)>>

\* C14 amended: the same when dry_run of the release config is off; with
\* dry_run on, the build run issues no command, logs that the step is
\* skipped and returns normally.
C14_BuildOnceUnlessDryRun ==
    (lastrun.step = "build" /\ lastrun.flag /\ HasRecord(lastrun.project)) =>
        IF config.dry_run
        THEN /\ RunCmds = {}
             /\ lastrun.status = "ok"
             /\ Last(log) = "# Dry run: Skipping build step"
        ELSE /\ Cardinality(RunCmds) = 1
             /\ \A i \in RunCmds :
                    /\ cmds[i].argv = <<ExpectedRecipeLine(lastrun.project)>>
                    /\ cmds[i].rc = 0 <=> lastrun.status = "ok"

\* C14 witness: in stable mode without dry_run a build run triggered the
\* recipe build of the recorded version, and the trigger returned zero.
C14_Witness ==
    /\ lastrun.step = "build"
    /\ lastrun.flag
    /\ HasRecord(lastrun.project)
    /\ config.mode = "stable"
    /\ ~config.dry_run
    /\ Cardinality(RunCmds) = 1
    /\ lastrun.status = "ok"

\* an invocation of a project step without --project
Batch == args.step \in ProjectSteps /\ args.project = ""

\* C15: an invocation of a project step without --project, with no project
\* flagged in the release config, ends with SystemExit (exit status 1)
\* before any external command is issued, and writes nothing.
C15_NothingToRelease ==
    (Batch /\ \A p \in ProjectSet : ~before.config.flags[p]) =>
        /\ status = "SystemExit"
        /\ pc = "done"
        /\ cmds = <<>>
        /\ writes = {}
        /\ lastrun.step = "none"
        /\ config = before.config /\ versions = before.versions

\* C15 witness: a batch push found both clones there and no project
\* flagged, and the process has ended.
C15_Witness ==
    /\ Batch
    /\ args.step = "push"
    /\ \A p \in ProjectSet : ~config.flags[p] /\ cloned[p] = {"code", "packaging"}
    /\ pc = "done"
    /\ status = "SystemExit"

IsGitLog(c) == Len(c.argv) >= 2 /\ c.argv[1] = "git" /\ c.argv[2] = "log"

IsPrefix(s, t) == Len(s) <= Len(t) /\ SubSeq(t, 1, Len(s)) = s

\* C16: a changelog step that finds versions.json runs git log between
\* v<last_stable> and v<new> for every flagged project with a record,
\* appends to the changelog without losing what it held, skips the flagged
\* projects without a record and returns normally.  The code does not keep
\* this: changelog() reads the release config through the unbound name
\* `args` and ends in NameError before it does anything else.
C16_ChangelogAppends ==
    (args.step = "changelog" /\ pc = "done" /\ before.versions.exists) =>
        /\ status = "ok"
        /\ IsPrefix(before.changelog, changelog)
        /\ \A p \in ProjectSet :
              (config.flags[p] /\ Record(before.versions, p) # <<>>) =>
                  \E i \in 1..Len(cmds) : IsGitLog(cmds[i])

\* the version Debian sorts before the final one: ~rc for rc
ExpectedDebianVersion(v) ==
    IF Parse(v).release = "rc"
    THEN <<"1", ".">> \o NatStr(Parse(v).minor) \o <<"~", "r", "c">>
         \o NatStr(Parse(v).N)
    ELSE v

ExpectedOrigName(p, v) ==
    (IF p = "plainbox-provider-resource"
     THEN "plainbox-provider-resource-generic"
     ELSE p)
    \o "_" \o Join(ExpectedDebianVersion(v)) \o ".orig.tar.gz"

IsImport(c) == c.argv[1] = "git-dpm" /\ c.argv[2] = "import-new-upstream"

\* C17: a dpm run for a flagged project whose .bumpversion.cfg holds
\* version V names the orig tarball <deb_project>_<debian_version>.orig.tar.gz:
\* debian_version is V with rc turned into ~rc, deb_project is
\* plainbox-provider-resource-generic for plainbox-provider-resource and
\* the project name otherwise.  The file it copies and the tarball it
\* imports carry that name.
C17_OrigTarballName ==
    (lastrun.step = "dpm" /\ lastrun.flag
       /\ cfgver[lastrun.project] # NoVersion) =>
        LET name == ExpectedOrigName(lastrun.project, cfgver[lastrun.project])
        IN  /\ self.orig_tarball = name
            /\ self.debian_new_version =
                   ExpectedDebianVersion(cfgver[lastrun.project])
            /\ WritesOf(lastrun.project) \subseteq {<<lastrun.project, name>>}
            /\ WritesOf(lastrun.project) # {} => name \in orig
            /\ orig \ before.orig \subseteq
                   { ExpectedOrigName(q, cfgver[q]) :
                       q \in { r \in ProjectSet : cfgver[r] # NoVersion } }
            /\ \A i \in RunCmds :
                   IsImport(cmds[i]) => cmds[i].argv[3] = "../" \o name

\* C17 witness: a dpm run for plainbox-provider-resource at a release
\* candidate copied the orig tarball and imported it.
C17_Witness ==
    /\ lastrun.step = "dpm"
    /\ lastrun.flag
    /\ lastrun.project = "plainbox-provider-resource"
    /\ Contains(cfgver[lastrun.project], <<"r", "c">>)
    /\ WritesOf(lastrun.project) # {}
    /\ \E i \in RunCmds : IsImport(cmds[i]) /\ cmds[i].rc = 0

\* the packaging operations of the dpm step, in order
DpmOps ==
    << <<"git-dpm", "import-new-upstream">>, <<"pristine-tar", "commit">>,
       <<"git-dpm", "prepare">>, <<"git-dpm", "rebase-patched">>,
       <<"git-dpm", "dch">>, <<"git-dpm", "status">>, <<"git-dpm", "tag">> >>

\* the number of commands of the last run
RunCount == Len(cmds) - lastrun.first

\* C18: the commands of a dpm run for a flagged project are a prefix of
\* import-new-upstream, pristine-tar commit, prepare, rebase-patched, dch,
\* status, tag, in that order; every command but the last one issued
\* returned zero; the orig tarball was copied before the first of them; and
\* when dist/ holds no tarball of the current version the run ends with
\* SystemExit(1) and no command.
C18_DpmOrder ==
    (lastrun.step = "dpm" /\ lastrun.flag) =>
        /\ RunCount <= Len(DpmOps)
        /\ \A k \in 1..RunCount :
               /\ SubSeq(cmds[lastrun.first + k].argv, 1, 2) = DpmOps[k]
               /\ k < RunCount => cmds[lastrun.first + k].rc = 0
        /\ RunCount > 0 => WritesOf(lastrun.project) # {}
        /\ (RunCount > 0 /\ \A i \in RunCmds : cmds[i].rc = 0) =>
               RunCount = Len(DpmOps) /\ lastrun.status = "ok"
        /\ (cfgver[lastrun.project] # NoVersion
              /\ cfgver[lastrun.project] \notin before.dist[lastrun.project]) =>
               /\ RunCount = 0
               /\ lastrun.status = "SystemExit"
               /\ WritesOf(lastrun.project) = {}

\* C18 witness: a dpm run issued the seven operations, each returning zero.
C18_Witness ==
    /\ lastrun.step = "dpm"
    /\ lastrun.flag
    /\ RunCount = 7
    /\ \A i \in RunCmds : cmds[i].rc = 0
    /\ lastrun.status = "ok"

IsRcTag(tag) == Contains(tag, <<"r", "c">>)

\* the stable pattern behind a tag prefix selects the tag
StableMatch(prefix, tag) == Glob(prefix \o version_pattern("stable"), tag)

\* C19: the stable tag pattern matches a tag exactly when the tag carries no
\* rc<N> suffix, for the tags of the code repositories and of the monorepo;
\* so the last_stable a bump records and the tag a stable clone step finds
\* are never release candidates.  The code does not keep this: [^c][0-9]
\* matches the last two characters of rc10.
C19_StablePatternSkipsRc ==
    pc = "done" =>
        /\ \A p \in ProjectSet : \A i \in 1..Len(tags[p]) :
               StableMatch(<<"v">>, tags[p][i]) <=> ~IsRcTag(tags[p][i])
        /\ \A i \in 1..Len(monotags) :
               StableMatch(<<"checkbox-ng", "-", "v">>, monotags[i])
                   <=> ~IsRcTag(monotags[i])
        /\ \A p \in ProjectSet :
               SavedNow(p) => ~IsRcTag(versions.data[p].last_stable)

\* the place of a project among the project keys of the config
Pos(p) == CHOOSE i \in 1..Len(BoxKeys) : BoxKeys[i] = p

\* the one command of a batch whose return code is not looked at
IsDryRunDelete(c) == IsDelete(c) /\ c.argv[3] = "--dry-run"

\* C20: in an invocation without --project the commands of the projects
\* follow each other in the order of the config's project keys, never
\* interleaved; the projects still to run are a suffix of those keys; a
\* command that failed fatally is the last command of the invocation; and
\* once a run has ended in an exception the process has ended, with no
\* command for any later project.
C20_BatchSequential ==
    Batch =>
        /\ \A i, j \in 1..Len(cmds) :
               i < j => Pos(cmds[i].proj) <= Pos(cmds[j].proj)
        /\ \E k \in 0..Len(BoxKeys) :
               pending = SubSeq(BoxKeys, k + 1, Len(BoxKeys))
        /\ \A i \in 1..Len(cmds) :
               (cmds[i].rc # 0 /\ ~IsDryRunDelete(cmds[i])) =>
                   i = Len(cmds) /\ status = "SystemExit" /\ pc = "done"
        /\ (status \notin {"ok", "running"} \/ lastrun.status # "ok") =>
               /\ pc = "done"
               /\ pending = <<>>
               /\ \A i \in 1..Len(cmds) :
                      lastrun.step # "none" =>
                          Pos(cmds[i].proj) <= Pos(lastrun.project)

\* C20 witness: with both projects flagged and cloned, a command of the
\* first project failed and the process ended without a command of the
\* second.
C20_Witness ==
    /\ Batch
    /\ \A p \in ProjectSet : config.flags[p] /\ cloned[p] = {"code", "packaging"}
    /\ cmds # <<>>
    /\ Last(cmds).rc # 0
    /\ Last(cmds).proj = BoxKeys[1]
    /\ status = "SystemExit"
    /\ pc = "done"

\* an invocation from the command line has started (and may have ended)
Invoked == args.step \in Steps

IsConfigWrite(x) == x[2] = "config"

\* C21: whatever step the command line starts (cleanup, clone, changelog, or
\* a project step for one project or for the batch), at every point of the
\* invocation the release config on disk (project flags, mode, dry_run) is
\* the one the invocation found, and the invocation has recorded no write
\* of the config file.
C21_ConfigNeverWritten ==
    Invoked =>
        /\ config = before.config
        /\ config.flags = before.config.flags
        /\ config.mode = before.config.mode
        /\ config.dry_run = before.config.dry_run
        /\ \A x \in writes : ~IsConfigWrite(x)

\* C21 witness: a bump of a flagged project wrote versions.json and changed
\* the version of the working copy, and the config is the one it found.
C21_Witness ==
    /\ Invoked
    /\ args.step = "bump"
    /\ args.project \in ProjectSet
    /\ before.config.flags[args.project]
    /\ <<args.project, "versions.json">> \in writes
    /\ cfgver # before.cfgver
    /\ config = before.config

\* the tag v<version> exists in the code repository of the project
Tagged(p, version) ==
    \E i \in 1..Len(tags[p]) : tags[p][i] = <<"v">> \o version

\* the invocation ran git tag and the command returned zero
TagCreated == \E i \in 1..Len(cmds) : IsTag(cmds[i]) /\ cmds[i].rc = 0

\* C22: versions.json holds a record with new = V for a project only if the
\* tag vV exists in the code repository of the project, and a bump that has
\* not created the tag has left versions.json as it found it.  The code does
\* not keep this: bump_version writes versions.json before it reaches the
\* tag command, and the tag command is never run.
C22_RecordOnlyIfTagged ==
    /\ \A p \in ProjectSet :
           Record(versions, p) # <<>> => Tagged(p, Record(versions, p)[1].new)
    /\ (args.step = "bump" /\ ~TagCreated) => versions = before.versions

\* the projects that have a record in the file
Recorded(vs) == { q \in ProjectSet : Record(vs, q) # <<>> }

\* C23: in an invocation of the bump step, the record of a project whose
\* record the invocation has not written is the one the invocation found
\* (none when there was none, or no file), a project whose record it has
\* written holds the version the bump produced as new, and the file exists
\* after a write and holds records for exactly the projects it held before
\* (none when it was missing) and those just written.
C23_OtherRecordsKept ==
    args.step = "bump" =>
        /\ \A q \in ProjectSet :
               /\ ~SavedNow(q) => Record(versions, q) = Record(before.versions, q)
               /\ SavedNow(q) =>
                      /\ Record(versions, q) # <<>>
                      /\ Record(versions, q)[1].new = cfgver[q]
        /\ Recorded(versions) =
               Recorded(before.versions) \cup { q \in ProjectSet : SavedNow(q) }
        /\ (\E q \in ProjectSet : SavedNow(q)) => versions.exists

\* C23 witness: a bump of one project wrote its record into a file that
\* held the record of the other project, saved by an earlier bump; both
\* records are in the file and the other one is as it was.
C23_Witness ==
    /\ args.step = "bump"
    /\ args.project \in ProjectSet
    /\ SavedNow(args.project)
    /\ \E q \in ProjectSet :
           /\ q # args.project
           /\ Record(before.versions, q) # <<>>
           /\ Record(before.versions, args.project) = <<>>
           /\ Record(versions, q) = Record(before.versions, q)
           /\ Record(versions, q)[1].new = cfgver[q]
           /\ Recorded(versions) = ProjectSet

\* the invocation the process has just run, run again on the disk it found
\* with another --mode and --dry-run and the commands of `fail` failing
Replay(mode, dry_run, fail) ==
    Release_run(
        [Release([args EXCEPT !.mode = mode, !.dry_run = dry_run], fail, TRUE)
            EXCEPT !.versions = before.versions, !.changelog = before.changelog,
                   !.cfgver = before.cfgver, !.dist = before.dist,
                   !.orig = before.orig, !.mono = before.mono,
                   !.cloned = before.cloned, !.behind = before.behind,
                   !.changes = before.changes])

\* an invocation of a project step for one project has ended
ProjectRunDone ==
    /\ args.step \in ProjectSteps
    /\ args.project \in ProjectSet
    /\ pc = "done"

====
